---- MODULE Spec2Model ----
(***************************************************************************)
(* BleManager (src/src/BleManager.js): the transaction-keyed mediation     *)
(* layer between application code and the BLE transport (BleModule and its *)
(* EventEmitter).                                                          *)
(*                                                                         *)
(* Execution model.  JavaScript is single threaded and run to completion:  *)
(* a transport callback (a native promise settling, an emitted event) is a *)
(* task of its own and starts only when the promise-job queue is empty;    *)
(* the continuation of an await and the handlers of a then() are promise   *)
(* jobs, run first-in first-out.  Application code runs at the start of a  *)
(* task, after another call of its own, or after one of its callbacks was  *)
(* invoked; userTurn records that.                                         *)
(***************************************************************************)
EXTENDS Integers, Sequences, FiniteSets, TLC

\* ------------------------------------------------------------------ bounds
MaxId == 4          \* identifiers _nextUniqueID may issue
MaxEvents == 2      \* events forwarded to one listener
MaxCancels == 2     \* cancelTransaction() calls
MaxRemoves == 2     \* remove() calls on one subscription
MaxDestroys == 2    \* destroy() calls
MaxScans == 2       \* startDeviceScan calls
MaxLen == 4         \* elements of an array given to a codec function
MaxEmits == 3       \* ReadEvents the transport emits

Ids == 1..MaxId

\* Transaction ids the application supplies; "" is the absent (falsy) id.
UserTxIds == {"A", "B"}
NoTx == ""
DeviceIds == {"d1", "d2"}

VARIABLES
    uniqueId,               \* this._uniqueId
    activePromises,         \* keys of this._activePromises
    promises,               \* every _callPromise call made so far, by its key
    activeSubscriptions,    \* keys of this._activeSubscriptions
    subscriptions,          \* every subscription created so far, by its key
    scanEventSubscription,  \* this._scanEventSubscription (0 is null)
    scanListeners,          \* scan listeners attached to the event emitter
    scans,                  \* startDeviceScan calls made
    jobs,                   \* the promise-job queue
    userTurn,               \* application code may run before the next job
    destroyCalls,           \* destroy() calls made
    cancelCalls,            \* cancelTransaction() calls made
    pendingAtDestroy,       \* keys whose operation was pending at a destroy()
    delivered,              \* <<subscription, tag>> of every forwarded event
    scanEvents,             \* scan events each startDeviceScan listener was given
    input,                  \* the array given to a codec function
    output,                 \* what the codec function returned
    thrown,                 \* errors operations threw before any transport call
    emitted                 \* ReadEvents the transport has emitted

vars == <<uniqueId, activePromises, promises, activeSubscriptions, subscriptions,
          scanEventSubscription, scanListeners, scans, jobs, userTurn,
          destroyCalls, cancelCalls, pendingAtDestroy, delivered, scanEvents,
          input, output, thrown, emitted>>

\* ------------------------------------------------------------ BleError.js
\* error.message: a transport failure carries the JSON text of a native
\* error (json = TRUE, body = its errorCode); a BleError built locally
\* carries the mapped, human readable message of its code.
NoMessage == [json |-> FALSE, body |-> ""]
NoError == [errorCode |-> "", reason |-> ""]

BleErrorCodeMessage(code) ==
    CASE code = "BluetoothManagerDestroyed" -> "BleManager was destroyed"
      [] code = "OperationCancelled" -> "Operation was cancelled"
      [] OTHER -> "Unknown error occurred"

\* new BleError(nativeBleError, mapping) for an object or for a string.
BleError(code) == [errorCode |-> code, reason |-> ""]
BleErrorFromString(text) == [errorCode |-> "UnknownError", reason |-> text]

\* The message property of a BleError built from a code.
MessageOf(error) == [json |-> FALSE, body |-> BleErrorCodeMessage(error.errorCode)]

\* The message of the Error a transport call rejects with.
NativeMessage(code) == [json |-> TRUE, body |-> code]

\* parseBleError(errorMessage, mapping): JSON.parse of the message; a message
\* that is not JSON becomes an UnknownError whose reason is the message.
parseBleError(message) ==
    IF message.json THEN BleError(message.body) ELSE BleErrorFromString(message.body)

\* ------------------------------------------------------------- helpers
Min(S) == CHOOSE x \in S : \A y \in S : x <= y

RECURSIVE Ascending(_)
\* for (const id in object): integer-like keys in ascending order.
Ascending(S) == IF S = {} THEN <<>> ELSE <<Min(S)>> \o Ascending(S \ {Min(S)})

\* Application code can run now: at the start of a task, or in a task in
\* which it already ran or one of its callbacks was invoked.
UserCan == userTurn \/ jobs = <<>>
Turn(t, js) == t /\ js # <<>>

\* A key no _callPromise call or subscription has used yet.
NoPromise ==
    [race |-> "none", message |-> NoMessage, status |-> "none", error |-> NoError,
     settlements |-> 0, tx |-> NoTx, native |-> "none", owner |-> "none", sub |-> 0,
     afterDestroy |-> FALSE, hooks |-> 0]
NoSubscription ==
    [kind |-> "none", tx |-> NoTx, attached |-> FALSE, events |-> 0, errors |-> 0,
     removes |-> 0, cancels |-> 0, detaches |-> 0, current |-> 0, log |-> <<>>]

\* A _nextUniqueID that hands out the identifier it issued last.
nextUniqueIDReused(n) == IF uniqueId = 0 THEN n ELSE uniqueId + n - 1

\* _nextUniqueID(): the identifier the n-th next call returns.
nextUniqueID(n) == uniqueId + n

\* The string form of an identifier (this._uniqueId.toString()).
IdString(n) == ToString(n)

\* transactionId || this._nextUniqueID(), and the calls of _nextUniqueID it makes.
FilledTransactionId(tx) == IF tx = NoTx THEN IdString(nextUniqueID(1)) ELSE tx
FillCalls(tx) == IF tx = NoTx THEN 1 ELSE 0

\* A race that lets every source settle it.
RaceOpenAlways(k) == promises[k].race # "none"

\* Promise.race: the first source to settle decides, later ones are dropped.
RaceOpen(k) == promises[k].race = "pending"

\* A source of the race of key k settles with `outcome`: the record of k and the
\* promise jobs it adds (the continuation of the await in _callPromise).
RaceSettled(k, outcome, message) ==
    IF RaceOpen(k)
    THEN [promises[k] EXCEPT !.race = outcome, !.message = message]
    ELSE promises[k]
RaceJobs(k) == IF RaceOpen(k) THEN <<[type |-> "settle", id |-> k]>> ELSE <<>>

\* _callPromise up to its await: the registry entry and the race.  Nothing
\* in it looks at whether destroy() was called; afterDestroy only records it.
callPromise(tx, owner, sub) ==
    [race |-> "pending", message |-> NoMessage, status |-> "pending",
     error |-> NoError, settlements |-> 0, tx |-> tx, native |-> "inflight",
     owner |-> owner, sub |-> sub, afterDestroy |-> destroyCalls > 0, hooks |-> 0]

\* The continuation of the await in _callPromise: delete the registry entry and
\* return the value, or throw parseBleError(error.message).
callPromiseSettled(k) ==
    IF promises[k].race = "value"
    THEN [promises[k] EXCEPT !.status = "resolved",
                             !.settlements = promises[k].settlements + 1]
    ELSE [promises[k] EXCEPT !.status = "rejected",
                             !.error = parseBleError(promises[k].message),
                             !.settlements = promises[k].settlements + 1]

\* BleModule.cancelTransaction(tx): the transport notes the request for the
\* calls in flight under that id; an id with no call in flight is ignored.
TransportCancel(tx) ==
    [k \in Ids |->
        IF promises[k].native = "inflight" /\ promises[k].tx = tx
        THEN [promises[k] EXCEPT !.native = "cancelling"]
        ELSE promises[k]]

\* A remove() that detaches nothing.
DetachedNever(S) == subscriptions

\* A remove() without the guard on the active set: every call detaches.
DetachedUnguarded(S) ==
    [s \in Ids |->
        IF s \in S
        THEN [subscriptions[s] EXCEPT !.attached = FALSE, !.detaches = @ + 1]
        ELSE subscriptions[s]]

\* remove() of the subscriptions S: a wrapped subscription acts only while its
\* key is in the active set, deletes the key and detaches its listener; the raw
\* emitter subscription of RestoreStateEvent detaches and deletes nothing.
KeysDeleted(S) ==
    {s \in S \cap activeSubscriptions : subscriptions[s].kind # "restore"}
Detached(S) ==
    [s \in Ids |->
        IF s \in S /\ (s \in activeSubscriptions \/ subscriptions[s].kind = "restore")
        THEN [subscriptions[s] EXCEPT !.attached = FALSE, !.detaches = @ + 1]
        ELSE subscriptions[s]]

\* The BluetoothManagerDestroyed error _destroyPromises builds.
destroyedError == BleError("BluetoothManagerDestroyed")

RECURSIVE HookJobs(_)
\* The promise jobs added by calling the hooks of the keys in `keys`, in order.
HookJobs(keys) ==
    IF keys = <<>> THEN <<>> ELSE RaceJobs(Head(keys)) \o HookJobs(Tail(keys))

\* A _destroyPromises that builds the error and calls no hook.
destroyPromisesNoHooks == [promises |-> promises, jobs |-> <<>>]

\* _destroyPromises(): every registered hook is called with destroyedError
\* (hooks counts the calls); the registry itself is left as it is.
destroyPromises ==
    [promises |-> [k \in Ids |->
                     IF k \in activePromises
                     THEN [RaceSettled(k, "destroyed", MessageOf(destroyedError))
                              EXCEPT !.hooks = @ + 1]
                     ELSE promises[k]],
     jobs |-> HookJobs(Ascending(activePromises))]

\* _destroySubscriptions(): remove() of every entry of the active set.
destroySubscriptions ==
    [active |-> activeSubscriptions \ KeysDeleted(activeSubscriptions),
     subscriptions |-> Detached(activeSubscriptions)]

\* ------------------------------------------------------------------ Init
\* constructor: with restoreStateFunction and restoreStateIdentifier the raw
\* emitter subscription of RestoreStateEvent is stored under a fresh key.
InitManager ==
    /\ \E restore \in BOOLEAN :
        /\ uniqueId = IF restore THEN 1 ELSE 0
        /\ activeSubscriptions = IF restore THEN {1} ELSE {}
        /\ subscriptions = [s \in Ids |->
              IF restore /\ s = 1
              THEN [NoSubscription EXCEPT !.kind = "restore", !.attached = TRUE]
              ELSE NoSubscription]
    /\ activePromises = {}
    /\ promises = [k \in Ids |-> NoPromise]
    /\ scanEventSubscription = 0
    /\ scanListeners = {}
    /\ scans = 0
    /\ jobs = <<>>
    /\ userTurn = FALSE
    /\ destroyCalls = 0
    /\ cancelCalls = 0
    /\ pendingAtDestroy = {}
    /\ delivered = {}
    /\ scanEvents = [n \in 1..MaxScans |-> 0]
    /\ thrown = {}
    /\ emitted = 0

\* No codec function has been called.
NoOutput == [op |-> "none", nan |-> FALSE, number |-> 0, text |-> <<>>, frame |-> <<>>]

Init ==
    /\ InitManager
    /\ input = <<>>
    /\ output = NoOutput

\* --------------------------------------------------- mediated operations
\* readRSSIForDevice(deviceIdentifier, transactionId) and every operation of
\* its shape: fill the transaction id, issue the transport call, _callPromise.
CallOperation(tx) ==
    LET k == nextUniqueID(FillCalls(tx) + 1) IN
    /\ UserCan
    /\ k \in Ids
    /\ uniqueId' = k
    /\ activePromises' = activePromises \cup {k}
    /\ promises' = [promises EXCEPT ![k] = callPromise(FilledTransactionId(tx), "op", 0)]
    /\ userTurn' = Turn(TRUE, jobs)
    /\ UNCHANGED <<scanEvents, input, output, thrown, emitted,
                   activeSubscriptions, subscriptions, scanEventSubscription,
                   scanListeners, scans, jobs, destroyCalls, cancelCalls,
                   pendingAtDestroy, delivered>>

\* An operation whose body reads its const measurementUnit in the initialiser
\* of that very const, after the transaction id was filled.  What the read does
\* depends on the build: a build that keeps the temporal dead zone throws a
\* ReferenceError, which rejects the promise of the async function before any
\* transport call; a build that compiles const to var reads undefined and goes
\* on to the write.
UseBeforeAssignment(op, tx) ==
    \E deadZone \in BOOLEAN :
        LET k == nextUniqueID(FillCalls(tx) + 1) IN
        /\ UserCan
        /\ k \in Ids
        /\ IF deadZone
           THEN /\ uniqueId' = nextUniqueID(FillCalls(tx))
                /\ thrown' = thrown \cup {op}
                /\ UNCHANGED <<activePromises, promises>>
           ELSE /\ uniqueId' = k
                /\ activePromises' = activePromises \cup {k}
                /\ promises' = [promises EXCEPT
                      ![k] = callPromise(FilledTransactionId(tx), "op", 0)]
                /\ UNCHANGED thrown
        /\ userTurn' = Turn(TRUE, jobs)
        /\ UNCHANGED <<activeSubscriptions, subscriptions, scanEventSubscription,
                       scanListeners, scans, jobs, destroyCalls, cancelCalls,
                       pendingAtDestroy, delivered, scanEvents, input, output,
                       emitted>>

SelectProfileAlternativeScale(tx) == UseBeforeAssignment("selectProfileAlternativeScale", tx)

ResetAlternativeScale(tx) == UseBeforeAssignment("resetAlternativeScale", tx)

\* A cancelTransaction that looks the id up in the registry and calls the hook
\* itself, with an OperationCancelled error built locally.
CancelTransactionLocally(tx) ==
    LET hit == {k \in activePromises : promises[k].tx = tx \/ IdString(k) = tx} IN
    /\ UserCan
    /\ cancelCalls < MaxCancels
    /\ cancelCalls' = cancelCalls + 1
    /\ promises' = [k \in Ids |->
          IF k \in hit
          THEN RaceSettled(k, "cancelled", MessageOf(BleError("OperationCancelled")))
          ELSE promises[k]]
    /\ jobs' = jobs \o HookJobs(Ascending(hit))
    /\ userTurn' = Turn(TRUE, jobs')
    /\ UNCHANGED <<scanEvents, input, output, thrown, emitted,
                   uniqueId, activePromises, activeSubscriptions, subscriptions,
                   scanEventSubscription, scanListeners, scans, destroyCalls,
                   pendingAtDestroy, delivered>>

\* cancelTransaction(transactionId): forwarded to the transport.
CancelTransaction(tx) ==
    /\ UserCan
    /\ cancelCalls < MaxCancels
    /\ cancelCalls' = cancelCalls + 1
    /\ promises' = TransportCancel(tx)
    /\ userTurn' = Turn(TRUE, jobs)
    /\ UNCHANGED <<scanEvents, input, output, thrown, emitted,
                   uniqueId, activePromises, activeSubscriptions, subscriptions,
                   scanEventSubscription, scanListeners, scans, jobs, destroyCalls, pendingAtDestroy, delivered>>


\* ---------------------------------------------------------------- monitors
\* monitorCharacteristicForDevice(..., listener, transactionId) with
\* _handleMonitorCharacteristic: attach the filter, store the wrapped
\* subscription, start the monitoring call through _callPromise.
MonitorCharacteristicForDevice(tx) ==
    LET s == nextUniqueID(FillCalls(tx) + 1)
        k == nextUniqueID(FillCalls(tx) + 2)
        filled == FilledTransactionId(tx) IN
    /\ UserCan
    /\ k \in Ids
    /\ uniqueId' = k
    /\ subscriptions' = [subscriptions EXCEPT ![s] =
          [NoSubscription EXCEPT !.kind = "monitor", !.tx = filled, !.attached = TRUE]]
    /\ activeSubscriptions' = activeSubscriptions \cup {s}
    /\ activePromises' = activePromises \cup {k}
    /\ promises' = [promises EXCEPT ![k] = callPromise(filled, "monitor", s)]
    /\ userTurn' = Turn(TRUE, jobs)
    /\ UNCHANGED <<scanEvents, input, output, thrown, emitted,
                   scanEventSubscription, scanListeners, scans, jobs, destroyCalls,
                   cancelCalls, pendingAtDestroy, delivered>>

\* remove() of the subscription a monitor call returned.
MonitorRemove(s) ==
    /\ UserCan
    /\ subscriptions[s].kind = "monitor"
    /\ subscriptions[s].removes < MaxRemoves
    /\ promises' = TransportCancel(subscriptions[s].tx)
    /\ subscriptions' = [subscriptions EXCEPT ![s].removes = @ + 1,
                                              ![s].cancels = @ + 1]
    /\ userTurn' = Turn(TRUE, jobs)
    /\ UNCHANGED <<scanEvents, input, output, thrown, emitted,
                   uniqueId, activePromises, activeSubscriptions, scanEventSubscription,
                   scanListeners, scans, jobs, destroyCalls, cancelCalls,
                   pendingAtDestroy, delivered>>

\* A monitorListener that forwards whatever it is given.
monitorListenerForwardsAll(s, tag) == subscriptions[s].kind = "monitor"

\* monitorListener: the filter on the transaction id of the event.
monitorListenerForwards(s, tag) == subscriptions[s].tx = tag

\* A monitorListener that hands the listener the new event ahead of the ones
\* it was given before.
listenerCalledOutOfOrder(log, n) == <<n>> \o log

\* listener(null, new Characteristic(characteristic, this)), called inside
\* monitorListener: the listener's history gains the n-th emission.
listenerCalled(log, n) == Append(log, n)

\* The transport emits a ReadEvent tagged `tag`, its (emitted + 1)-th: every
\* attached monitorListener is called with it.
ReadEvent(tag) ==
    LET hit == {s \in Ids : /\ subscriptions[s].kind = "monitor"
                            /\ subscriptions[s].attached
                            /\ monitorListenerForwards(s, tag)} IN
    /\ jobs = <<>>
    /\ emitted < MaxEmits
    /\ \A s \in hit : subscriptions[s].events < MaxEvents
    /\ emitted' = emitted + 1
    /\ subscriptions' = [s \in Ids |->
          IF s \in hit
          THEN [subscriptions[s] EXCEPT
                   !.events = @ + 1, !.log = listenerCalled(@, emitted + 1)]
          ELSE subscriptions[s]]
    /\ delivered' = delivered \cup {<<s, tag>> : s \in hit}
    /\ userTurn' = FALSE
    /\ UNCHANGED <<scanEvents, input, output, thrown,
                   uniqueId, activePromises, promises, activeSubscriptions,
                   scanEventSubscription, scanListeners, scans, jobs, destroyCalls,
                   cancelCalls, pendingAtDestroy>>

\* ------------------------------------------------- other subscriptions
\* onDeviceDisconnected(deviceIdentifier, listener).
OnDeviceDisconnected(device) ==
    LET s == nextUniqueID(1) IN
    /\ UserCan
    /\ s \in Ids
    /\ uniqueId' = s
    /\ subscriptions' = [subscriptions EXCEPT ![s] =
          [NoSubscription EXCEPT !.kind = "disconnection", !.tx = device,
                                 !.attached = TRUE]]
    /\ activeSubscriptions' = activeSubscriptions \cup {s}
    /\ userTurn' = Turn(TRUE, jobs)
    /\ UNCHANGED <<scanEvents, input, output, thrown, emitted,
                   activePromises, promises, scanEventSubscription, scanListeners,
                   scans, jobs, destroyCalls, cancelCalls, pendingAtDestroy,
                   delivered>>

\* remove() of the wrapped subscription onDeviceDisconnected or onStateChange
\* returned.
SubscriptionRemove(s) ==
    /\ UserCan
    /\ subscriptions[s].kind \in {"disconnection", "statechange"}
    /\ subscriptions[s].removes < MaxRemoves
    /\ activeSubscriptions' = activeSubscriptions \ KeysDeleted({s})
    /\ subscriptions' = [Detached({s}) EXCEPT ![s].removes = @ + 1]
    /\ userTurn' = Turn(TRUE, jobs)
    /\ UNCHANGED <<scanEvents, input, output, thrown, emitted,
                   uniqueId, activePromises, promises, scanEventSubscription,
                   scanListeners, scans, jobs, destroyCalls, cancelCalls,
                   pendingAtDestroy, delivered>>

\* A stopDeviceScan that leaves the scan listener attached.
stopDeviceScanKeepsListener == scanListeners

\* stopDeviceScan() as far as the manager's state goes.
stopDeviceScan == scanListeners \ {scanEventSubscription}

\* startDeviceScan(UUIDs, options, listener).
StartDeviceScan ==
    /\ UserCan
    /\ scans < MaxScans
    /\ scans' = scans + 1
    /\ scanEventSubscription' = scans + 1
    /\ scanListeners' = stopDeviceScan \cup {scans + 1}
    /\ userTurn' = Turn(TRUE, jobs)
    /\ UNCHANGED <<scanEvents, input, output, thrown, emitted,
                   uniqueId, activePromises, promises, activeSubscriptions,
                   subscriptions, jobs, destroyCalls, cancelCalls,
                   pendingAtDestroy, delivered>>

\* stopDeviceScan().
StopDeviceScan ==
    /\ UserCan
    /\ scanEventSubscription # 0
    /\ scanEventSubscription' = 0
    /\ scanListeners' = stopDeviceScan
    /\ userTurn' = Turn(TRUE, jobs)
    /\ UNCHANGED <<scanEvents, input, output, thrown, emitted,
                   uniqueId, activePromises, promises, activeSubscriptions,
                   subscriptions, scans, jobs, destroyCalls, cancelCalls,
                   pendingAtDestroy, delivered>>

\* A disconnectionListener that forwards the event of any device.
disconnectionListenerForwardsAll(s, device) == subscriptions[s].kind = "disconnection"

\* disconnectionListener: the filter on the id of the disconnected device.
disconnectionListenerForwards(s, device) == subscriptions[s].tx = device

\* The transport emits a DisconnectionEvent of `device`: every attached
\* disconnectionListener is called with it.
DisconnectionEvent(device) ==
    LET hit == {s \in Ids : /\ subscriptions[s].kind = "disconnection"
                            /\ subscriptions[s].attached
                            /\ disconnectionListenerForwards(s, device)} IN
    /\ jobs = <<>>
    /\ \E s \in Ids : subscriptions[s].kind = "disconnection" /\ subscriptions[s].attached
    /\ \A s \in hit : subscriptions[s].events < MaxEvents
    /\ subscriptions' = [s \in Ids |->
          IF s \in hit THEN [subscriptions[s] EXCEPT !.events = @ + 1]
          ELSE subscriptions[s]]
    /\ delivered' = delivered \cup {<<s, device>> : s \in hit}
    /\ userTurn' = FALSE
    /\ UNCHANGED <<uniqueId, activePromises, promises, activeSubscriptions,
                   scanEventSubscription, scanListeners, scans, jobs, destroyCalls,
                   cancelCalls, pendingAtDestroy, scanEvents, input, output,
                   thrown, emitted>>

\* onStateChange(listener, emitCurrentState): the listener is attached to
\* StateChangeEvent directly; with emitCurrentState, state() is queried through
\* _callPromise (key s + 1) and its promise goes through _callPromise again
\* (key s + 2).
OnStateChange(emitCurrentState) ==
    LET s == nextUniqueID(1)
        last == IF emitCurrentState THEN s + 2 ELSE s IN
    /\ UserCan
    /\ last \in Ids
    /\ uniqueId' = last
    /\ subscriptions' = [subscriptions EXCEPT ![s] =
          [NoSubscription EXCEPT !.kind = "statechange", !.attached = TRUE]]
    /\ activeSubscriptions' = activeSubscriptions \cup {s}
    /\ activePromises' = activePromises \cup (IF emitCurrentState THEN {s + 1, s + 2} ELSE {})
    /\ promises' = [k \in Ids |->
          IF emitCurrentState /\ k = s + 1 THEN callPromise(NoTx, "state", s)
          ELSE IF emitCurrentState /\ k = s + 2
               THEN [callPromise(NoTx, "statechange", s) EXCEPT !.native = "none"]
               ELSE promises[k]]
    /\ userTurn' = Turn(TRUE, jobs)
    /\ UNCHANGED <<scanEventSubscription, scanListeners, scans, jobs, destroyCalls,
                   cancelCalls, pendingAtDestroy, delivered, scanEvents, input, output,
                   thrown, emitted>>

\* The transport emits a StateChangeEvent: every attached listener is called.
StateChangeEvent ==
    LET hit == {s \in Ids : subscriptions[s].kind = "statechange"
                            /\ subscriptions[s].attached} IN
    /\ jobs = <<>>
    /\ hit # {}
    /\ \A s \in hit : subscriptions[s].events < MaxEvents
    /\ subscriptions' = [s \in Ids |->
          IF s \in hit THEN [subscriptions[s] EXCEPT !.events = @ + 1]
          ELSE subscriptions[s]]
    /\ userTurn' = FALSE
    /\ UNCHANGED <<uniqueId, activePromises, promises, activeSubscriptions,
                   scanEventSubscription, scanListeners, scans, jobs, destroyCalls,
                   cancelCalls, pendingAtDestroy, delivered, scanEvents, input, output,
                   thrown, emitted>>

\* The transport emits a ScanEvent: every attached scanListener is called.
ScanEvent ==
    /\ jobs = <<>>
    /\ scanListeners # {}
    /\ \A n \in scanListeners : scanEvents[n] < MaxEvents
    /\ scanEvents' = [n \in 1..MaxScans |->
          IF n \in scanListeners THEN scanEvents[n] + 1 ELSE scanEvents[n]]
    /\ userTurn' = FALSE
    /\ UNCHANGED <<uniqueId, activePromises, promises, activeSubscriptions,
                   subscriptions, scanEventSubscription, scanListeners, scans, jobs,
                   destroyCalls, cancelCalls, pendingAtDestroy, delivered, input,
                   output, thrown, emitted>>

\* ---------------------------------------------------------------- destroy
\* destroy(): destroyClient, the scan subscription, _destroySubscriptions,
\* _destroyPromises.
Destroy ==
    /\ UserCan
    /\ destroyCalls < MaxDestroys
    /\ destroyCalls' = destroyCalls + 1
    /\ scanEventSubscription' = 0
    /\ scanListeners' = stopDeviceScan
    /\ activeSubscriptions' = destroySubscriptions.active
    /\ subscriptions' = destroySubscriptions.subscriptions
    /\ promises' = destroyPromises.promises
    /\ jobs' = jobs \o destroyPromises.jobs
    /\ pendingAtDestroy' = pendingAtDestroy \cup {k \in activePromises : RaceOpen(k)}
    /\ userTurn' = Turn(TRUE, jobs')
    /\ UNCHANGED <<scanEvents, input, output, thrown, emitted,
                   uniqueId, activePromises, scans, cancelCalls, delivered>>

\* -------------------------------------------------------------- transport
\* The transport resolves the call behind key k.
TransportResolve(k) ==
    /\ jobs = <<>>
    /\ promises[k].native \in {"inflight", "cancelling"}
    /\ promises' = [promises EXCEPT
          ![k] = [RaceSettled(k, "value", NoMessage) EXCEPT !.native = "done"]]
    /\ jobs' = RaceJobs(k)
    /\ userTurn' = FALSE
    /\ UNCHANGED <<scanEvents, input, output, thrown, emitted,
                   uniqueId, activePromises, activeSubscriptions, subscriptions,
                   scanEventSubscription, scanListeners, scans, destroyCalls,
                   cancelCalls, pendingAtDestroy, delivered>>

\* The error codes the transport may reject the call behind key k with:
\* OperationCancelled only after a cancel request reached it.
TransportErrors(k) ==
    {"DeviceDisconnected"} \cup
    (IF promises[k].native = "cancelling" THEN {"OperationCancelled"} ELSE {})

\* The transport rejects the call behind key k.
TransportReject(k, code) ==
    /\ jobs = <<>>
    /\ promises[k].native \in {"inflight", "cancelling"}
    /\ code \in TransportErrors(k)
    /\ promises' = [promises EXCEPT
          ![k] = [RaceSettled(k, "transport", NativeMessage(code)) EXCEPT !.native = "done"]]
    /\ jobs' = RaceJobs(k)
    /\ userTurn' = FALSE
    /\ UNCHANGED <<scanEvents, input, output, thrown, emitted,
                   uniqueId, activePromises, activeSubscriptions, subscriptions,
                   scanEventSubscription, scanListeners, scans, destroyCalls,
                   cancelCalls, pendingAtDestroy, delivered>>

\* ------------------------------------------------------------ promise jobs
\* The promise state() returned settles: it is the second source of the race
\* of the _callPromise call made next (key k + 1), which sees the value or the
\* message of the BleError state() threw.
InnerSettled(k) ==
    IF promises[k].race = "value"
    THEN RaceSettled(k + 1, "value", NoMessage)
    ELSE RaceSettled(k + 1, "rejected", MessageOf(callPromiseSettled(k).error))

\* The promise jobs the settling of the _callPromise call with key k adds: the
\* handlers its caller attached with then(), or the race of the outer call.
SettleJobs(k) ==
    CASE promises[k].owner = "monitor" -> <<[type |-> "then", id |-> k]>>
      [] promises[k].owner = "statechange" -> <<[type |-> "emit", id |-> k]>>
      [] promises[k].owner = "state" -> RaceJobs(k + 1)
      [] OTHER -> <<>>

\* A continuation that settles the call and leaves its registry entry.
RunSettleKeepsEntry(k) ==
    /\ promises' = [promises EXCEPT ![k] = callPromiseSettled(k)]
    /\ jobs' = Tail(jobs) \o SettleJobs(k)
    /\ userTurn' = Turn(userTurn \/ promises[k].owner = "op", jobs')
    /\ UNCHANGED <<activePromises, uniqueId, activeSubscriptions, subscriptions,
                   scanEventSubscription, scanListeners, scans, destroyCalls,
                   cancelCalls, pendingAtDestroy, delivered, scanEvents, input,
                   output, thrown, emitted>>

\* The continuation of the await in _callPromise for key k.
RunSettle(k) ==
    /\ activePromises' = activePromises \ {k}
    /\ promises' = [j \in Ids |->
          IF j = k THEN callPromiseSettled(k)
          ELSE IF promises[k].owner = "state" /\ j = k + 1 THEN InnerSettled(k)
               ELSE promises[j]]
    /\ jobs' = Tail(jobs) \o SettleJobs(k)
    /\ userTurn' = Turn(userTurn \/ promises[k].owner = "op", jobs')
    /\ UNCHANGED <<scanEvents, input, output, thrown, emitted,
                   uniqueId, activeSubscriptions, subscriptions, scanEventSubscription,
                   scanListeners, scans, destroyCalls, cancelCalls,
                   pendingAtDestroy, delivered>>

\* then() handlers that notify the listener and leave the subscription alone.
RunThenKeepsSubscription(k) ==
    LET s == promises[k].sub
        failed == promises[k].status = "rejected" IN
    /\ subscriptions' = [subscriptions EXCEPT
          ![s].errors = IF failed THEN @ + 1 ELSE @]
    /\ jobs' = Tail(jobs)
    /\ userTurn' = Turn(userTurn \/ failed, jobs')
    /\ UNCHANGED <<uniqueId, activePromises, promises, activeSubscriptions,
                   scanEventSubscription, scanListeners, scans, destroyCalls,
                   cancelCalls, pendingAtDestroy, delivered, scanEvents, input, output,
                   thrown, emitted>>

\* The then() handlers of _handleMonitorCharacteristic for key k: on failure
\* listener(error, null); in both cases wrappedSubscription.remove().
RunThen(k) ==
    LET s == promises[k].sub
        failed == promises[k].status = "rejected" IN
    /\ activeSubscriptions' = activeSubscriptions \ KeysDeleted({s})
    /\ subscriptions' = [Detached({s}) EXCEPT
          ![s].errors = IF failed THEN @ + 1 ELSE @]
    /\ jobs' = Tail(jobs)
    /\ userTurn' = Turn(userTurn \/ failed, jobs')
    /\ UNCHANGED <<scanEvents, input, output, thrown, emitted,
                   uniqueId, activePromises, promises, scanEventSubscription,
                   scanListeners, scans, destroyCalls, cancelCalls,
                   pendingAtDestroy, delivered>>

\* A then() handler of onStateChange that ignores `cancelled`.
currentStateEmittedAlways(k) == promises[k].status = "resolved"

\* The then() handler of onStateChange calls listener(currentState): the query
\* resolved and `cancelled` is false, that is, remove() has not deleted the key
\* of the subscription.
currentStateEmitted(k) ==
    /\ promises[k].status = "resolved"
    /\ promises[k].sub \in activeSubscriptions

\* The then() handler of onStateChange for key k; a failed query has no handler.
RunEmit(k) ==
    LET s == promises[k].sub IN
    /\ subscriptions' = [subscriptions EXCEPT
          ![s].current = IF currentStateEmitted(k) THEN @ + 1 ELSE @]
    /\ jobs' = Tail(jobs)
    /\ userTurn' = Turn(userTurn \/ currentStateEmitted(k), jobs')
    /\ UNCHANGED <<uniqueId, activePromises, promises, activeSubscriptions,
                   scanEventSubscription, scanListeners, scans, destroyCalls,
                   cancelCalls, pendingAtDestroy, delivered, scanEvents, input, output,
                   thrown, emitted>>

\* The head of the promise-job queue runs.
RunSettleJob ==
    /\ jobs # <<>>
    /\ Head(jobs).type = "settle"
    /\ RunSettle(Head(jobs).id)

RunThenJob ==
    /\ jobs # <<>>
    /\ Head(jobs).type = "then"
    /\ RunThen(Head(jobs).id)

RunEmitJob ==
    /\ jobs # <<>>
    /\ Head(jobs).type = "emit"
    /\ RunEmit(Head(jobs).id)

\* ------------------------------------------------------------------ codecs
\* An array element as JavaScript sees it: Number(x), and whether it is NaN.
Entry(n) == [nan |-> FALSE, number |-> n]
NotANumber == [nan |-> TRUE, number |-> 0]

ByteValues == {0, 1, 170, 255}
Entries == {Entry(n) : n \in ByteValues} \cup {NotANumber}
Arrays == UNION {[1..n -> Entries] : n \in 0..MaxLen}

AllNumbers(array) == \A i \in DOMAIN array : ~array[i].nan
Numbers(array) == [i \in DOMAIN array |-> array[i].number]

\* The bitwise operators on non-negative 32-bit integers.
RECURSIVE BitAnd(_, _)
BitAnd(x, y) ==
    IF x = 0 \/ y = 0 THEN 0
    ELSE (x % 2) * (y % 2) + 2 * BitAnd(x \div 2, y \div 2)

RECURSIVE BitOr(_, _)
BitOr(x, y) ==
    IF x = 0 THEN y ELSE IF y = 0 THEN x
    ELSE (IF x % 2 = 1 \/ y % 2 = 1 THEN 1 ELSE 0) + 2 * BitOr(x \div 2, y \div 2)

RECURSIVE BitXor(_, _)
BitXor(x, y) ==
    IF x = 0 THEN y ELSE IF y = 0 THEN x
    ELSE ((x + y) % 2) + 2 * BitXor(x \div 2, y \div 2)

\* x << n; the operands here are bytes shifted by at most 16, far below the
\* 32 bits at which << wraps.
ShiftLeft(x, n) == x * 2^n
ShiftRight(x, n) == x \div 2^n

RECURSIVE sumLoop(_, _, _)
\* for (; i < array.length; i++) sum += array[i]
sumLoop(array, i, sum) ==
    IF i > Len(array) THEN sum ELSE sumLoop(array, i + 1, sum + array[i])

\* A checksum that returns the sum as it is.
calculateChecksumUnmasked(array) == sumLoop(array, 1, 0)

\* calculateChecksum(array): sum & 0xff.
calculateChecksum(array) == BitAnd(sumLoop(array, 1, 0), 255)

RECURSIVE xorLoop(_, _, _)
\* for (i = 0; ...) { if (isNaN(input[i])) continue; total ^= Number(input[i]) }
\* where ^= reads a NaN total as 0.
xorLoop(array, i, total) ==
    IF i > Len(array) THEN total
    ELSE xorLoop(array, i + 1,
            IF array[i].nan THEN total
            ELSE Entry(BitXor(IF total.nan THEN 0 ELSE total.number, array[i].number)))

\* An exclusive-or that starts from 0 and so folds the first element once.
XORFromZero(array) == xorLoop(array, 1, Entry(0))

\* XOR(input) for an array: total starts as Number(input[0]) (NaN for the empty
\* array) and the loop starts at index 0 as well.
XOR(array) == xorLoop(array, 1, IF array = <<>> THEN NotANumber ELSE array[1])

encodings ==
    <<"A", "B", "C", "D", "E", "F", "G", "H", "I", "J", "K", "L", "M", "N",
      "O", "P", "Q", "R", "S", "T", "U", "V", "W", "X", "Y", "Z", "a", "b",
      "c", "d", "e", "f", "g", "h", "i", "j", "k", "l", "m", "n", "o", "p",
      "q", "r", "s", "t", "u", "v", "w", "x", "y", "z", "0", "1", "2", "3",
      "4", "5", "6", "7", "8", "9", "+", "/">>

\* The four characters of a chunk of three bytes.
EncodeChunk(b1, b2, b3) ==
    LET chunk == BitOr(BitOr(ShiftLeft(b1, 16), ShiftLeft(b2, 8)), b3)
        a == ShiftRight(BitAnd(chunk, 16515072), 18)
        b == ShiftRight(BitAnd(chunk, 258048), 12)
        c == ShiftRight(BitAnd(chunk, 4032), 6)
        d == BitAnd(chunk, 63) IN
    <<encodings[a + 1], encodings[b + 1], encodings[c + 1], encodings[d + 1]>>

RECURSIVE mainLoop(_, _, _)
\* for (var i = 0; i < mainLength; i = i + 3)
mainLoop(bytes, i, mainLength) ==
    IF i > mainLength THEN <<>>
    ELSE EncodeChunk(bytes[i], bytes[i + 1], bytes[i + 2])
            \o mainLoop(bytes, i + 3, mainLength)

\* Remaining bytes encoded without the padding characters.
RemainderUnpadded(bytes, mainLength, byteRemainder) ==
    IF byteRemainder = 0 THEN <<>>
    ELSE SubSeq(EncodeChunk(bytes[mainLength + 1],
                            IF byteRemainder = 2 THEN bytes[mainLength + 2] ELSE 0, 0),
                1, byteRemainder + 1)

\* The characters for the one or two bytes left after the main loop.
Remainder(bytes, mainLength, byteRemainder) ==
    IF byteRemainder = 1
    THEN LET chunk == bytes[mainLength + 1]
             a == ShiftRight(BitAnd(chunk, 252), 2)
             b == ShiftLeft(BitAnd(chunk, 3), 4) IN
         <<encodings[a + 1], encodings[b + 1], "=", "=">>
    ELSE IF byteRemainder = 2
    THEN LET chunk == BitOr(ShiftLeft(bytes[mainLength + 1], 8), bytes[mainLength + 2])
             a == ShiftRight(BitAnd(chunk, 64512), 10)
             b == ShiftRight(BitAnd(chunk, 1008), 4)
             c == ShiftLeft(BitAnd(chunk, 15), 2) IN
         <<encodings[a + 1], encodings[b + 1], encodings[c + 1], "=">>
    ELSE <<>>

\* An encoder that stops after the main loop.
base64ArrayBufferNoRemainder(bytes) ==
    mainLoop(bytes, 1, Len(bytes) - (Len(bytes) % 3))

\* base64ArrayBuffer(arrayBuffer), as the sequence of its characters.
base64ArrayBuffer(bytes) ==
    LET byteLength == Len(bytes)
        byteRemainder == byteLength % 3
        mainLength == byteLength - byteRemainder IN
    mainLoop(bytes, 1, mainLength) \o Remainder(bytes, mainLength, byteRemainder)

\* The variables of the manager, which the codec functions do not touch.
managerVars ==
    <<uniqueId, activePromises, promises, activeSubscriptions, subscriptions,
      scanEventSubscription, scanListeners, scans, jobs, userTurn, destroyCalls,
      cancelCalls, pendingAtDestroy, delivered, scanEvents, thrown, emitted>>

\* A manager whose codec functions are about to be given `input`.
InitCodec ==
    /\ InitManager
    /\ input \in Arrays
    /\ output = NoOutput

CallCalculateChecksum ==
    /\ output.op = "none"
    /\ AllNumbers(input)
    /\ output' = [NoOutput EXCEPT !.op = "checksum",
                                  !.number = calculateChecksum(Numbers(input))]
    /\ UNCHANGED <<managerVars, input>>

CallXOR ==
    /\ output.op = "none"
    /\ output' = [NoOutput EXCEPT !.op = "xor", !.nan = XOR(input).nan,
                                  !.number = XOR(input).number]
    /\ UNCHANGED <<managerVars, input>>

CallBase64ArrayBuffer ==
    /\ output.op = "none"
    /\ AllNumbers(input)
    /\ output' = [NoOutput EXCEPT !.op = "base64",
                                  !.text = base64ArrayBuffer(Numbers(input))]
    /\ UNCHANGED <<managerVars, input>>

\* ------------------------------------------------------- command frames
\* The arguments of the device-protocol operations and the clock they read.
ParamValues == {-1, 0, 5, 10, 11, 50, 98, 150, 218, 255, 256, 300}
Timestamps ==
    {[year |-> 24, month |-> 3, day |-> 5, hour |-> 13, minute |-> 45, second |-> 12],
     [year |-> 99, month |-> 12, day |-> 31, hour |-> 23, minute |-> 59, second |-> 59],
     [year |-> 0, month |-> 1, day |-> 1, hour |-> 0, minute |-> 0, second |-> 0]}
Parameters ==
    [age : ParamValues, height : ParamValues, male : BOOLEAN, time : Timestamps,
     now : Timestamps]

\* What a Uint8Array keeps of an integer stored in it.
ToUint8(x) == x % 256
Stored(array) == [i \in DOMAIN array |-> ToUint8(array[i])]

\* new Uint8Array(n)
Zeroes(n) == [i \in 1..n |-> 0]

\* parseInt(user.slice(..), 16) of a user id of eight hex characters.
userBytes == <<10, 27, 44, 61>>

\* height < 100 ? 100 : height > 218 ? 218 : height
heightUnit(height) == IF height < 100 THEN 100 ELSE IF height > 218 THEN 218 ELSE height

\* age < 10 ? 10 : age > 98 ? 98 : age
ageUnit(age) == IF age < 10 THEN 10 ELSE IF age > 98 THEN 98 ELSE age

\* setUserProfileToScales: gender === 'male' ? age + 128 : age
genderUnit(age, male) == IF male THEN age + 128 ELSE age

\* activateVibration: duration > 10 ? 10 : duration
durationUnit(duration) == IF duration > 10 THEN 10 ELSE duration

\* parseInt(date.slice(..), 16) of a field of two decimal digits.
hexOfDigits(n) == (n \div 10) * 16 + (n % 10)

\* A frame sent with byte 15 as new Uint8Array(16) left it.
WithoutChecksum(uint16) == uint16

\* uint16[15] = this.calculateChecksum(uint16)
WithChecksum(uint16) == [uint16 EXCEPT ![16] = ToUint8(calculateChecksum(uint16))]

\* The 16-byte frame of a tracker command with one argument byte.
trackerFrame(command, value) ==
    WithChecksum(Stored([Zeroes(16) EXCEPT ![1] = command, ![2] = value]))

setDeviceTimeFrame(time) ==
    WithChecksum(Stored([Zeroes(16) EXCEPT
        ![1] = 1, ![2] = hexOfDigits(time.year), ![3] = hexOfDigits(time.month),
        ![4] = hexOfDigits(time.day), ![5] = hexOfDigits(time.hour),
        ![6] = hexOfDigits(time.minute), ![7] = hexOfDigits(time.second)]))

setUserProfileToAlternativeScaleFrame(age, height, male) ==
    Stored(<<129, 0, 129>> \o userBytes
           \o <<0, heightUnit(height), ageUnit(age), IF male THEN 1 ELSE 0, 0, 0>>)

\* new Uint16Array([...]) read through new Uint8Array(array): one byte each.
setUserProfileToScalesFrame(age, height, male) ==
    Stored(<<253, 83, 0, 0, 255, genderUnit(age, male), heightUnit(height)>>)

\* The checksum both glucometer commands compute: 0x5a + 0x0a + 0x00, the
\* five time fields and 2, modulo 256.
glucometerChecksum(time) ==
    (90 + 10 + 0 + time.year + time.month + time.day + time.hour + time.minute + 2) % 256

glucometerFrame(command, time) ==
    Stored(<<90, 10, command, time.year, time.month, time.day, time.hour,
             time.minute, 0, glucometerChecksum(time)>>)

\* The fixed payloads of the blood-pressure commands.
fetchBloodPressureModeFrame == Stored(<<2, 64, 220, 1, 178, 47>>)
fetchHistoricBloodPressureMeasurementFrame == Stored(<<2, 64, 220, 1, 177, 44>>)
turnBloodPressureVoiceOffFrame == Stored(<<2, 64, 220, 1, 163, 62>>)
startBloodPressureTestingFrame == Stored(<<2, 64, 220, 1, 161, 60>>)

\* The array a payload of numbers is for XOR.
AsEntries(payload) == [i \in DOMAIN payload |-> Entry(payload[i])]

\* payload = [0x02, 0x40, 0xdc, 0x07, 0xb0, year, month, day, hour, minute,
\* second]; payload.push(this.XOR(payload)); read through new Uint8Array.
bloodPressureTimeFrame(year, date) ==
    LET payload == <<2, 64, 220, 7, 176, year, date.month, date.day, date.hour,
                     date.minute, date.second>> IN
    Stored(Append(payload, XOR(AsEntries(payload)).number))

\* A time-set frame whose year is the year of the date argument.
setBloodPressureTimeFrameOfDate(now, date) == bloodPressureTimeFrame(date.year, date)

\* setBloodPressureTime: year = parseInt(moment().format('YY')), the other
\* fields moment(date).month() + 1, .date(), .hour(), .minute(), .second().
setBloodPressureTimeFrame(now, date) == bloodPressureTimeFrame(now.year, date)

\* A manager whose protocol operations are about to be given `input`.
InitFrames ==
    /\ InitManager
    /\ input \in Parameters
    /\ output = NoOutput

\* The operation `op` hands `frame` to base64ArrayBuffer and the transport write.
Transmit(op, frame) ==
    /\ output.op = "none"
    /\ output' = [NoOutput EXCEPT !.op = op, !.frame = frame,
                                  !.text = base64ArrayBuffer(frame)]
    /\ UNCHANGED <<managerVars, input>>

SetUserProfileToAlternativeScale ==
    Transmit("setUserProfileToAlternativeScale",
             setUserProfileToAlternativeScaleFrame(input.age, input.height, input.male))

SetUserProfileToScales ==
    Transmit("setUserProfileToScales",
             setUserProfileToScalesFrame(input.age, input.height, input.male))

ActivateVibration ==
    Transmit("activateVibration", trackerFrame(54, durationUnit(input.age)))

SetDeviceTime == Transmit("setDeviceTime", setDeviceTimeFrame(input.time))

SetTrackerDistanceUnit ==
    Transmit("setTrackerDistanceUnit", trackerFrame(15, IF input.male THEN 1 ELSE 0))

GetDetailedDayActivity ==
    Transmit("getDetailedDayActivity", trackerFrame(67, input.age))

GetSummaryDayActivity ==
    Transmit("getSummaryDayActivity", trackerFrame(7, input.age))

FetchAdditionalGlucometerRecord ==
    Transmit("fetchAdditionalGlucometerRecord", glucometerFrame(3, input.time))

SetGlucometerTime == Transmit("setGlucometerTime", glucometerFrame(0, input.time))

FetchBloodPressureMode ==
    Transmit("fetchBloodPressureMode", fetchBloodPressureModeFrame)

FetchHistoricBloodPressureMeasurement ==
    Transmit("fetchHistoricBloodPressureMeasurement",
             fetchHistoricBloodPressureMeasurementFrame)

TurnBloodPressureVoiceOff ==
    Transmit("turnBloodPressureVoiceOff", turnBloodPressureVoiceOffFrame)

StartBloodPressureTesting ==
    Transmit("startBloodPressureTesting", startBloodPressureTestingFrame)

SetBloodPressureTime ==
    Transmit("setBloodPressureTime", setBloodPressureTimeFrame(input.now, input.time))

\* ---------------------------------------------------------- specifications
\* Transaction ids given to cancelTransaction and carried by events: the
\* application's own and the strings of the identifiers.
CancelIds == UserTxIds \cup {IdString(n) : n \in Ids}
OperationTxIds == {"A", NoTx}
MonitorTxIds == UserTxIds \cup {NoTx}

Transport ==
    \/ \E k \in Ids : TransportResolve(k)
    \/ \E k \in Ids, code \in {"DeviceDisconnected", "OperationCancelled"} :
          TransportReject(k, code)

\* Mediated operations, cancellation and teardown.
Next ==
    \/ \E tx \in OperationTxIds : CallOperation(tx)
    \/ \E tx \in CancelIds : CancelTransaction(tx)
    \/ Destroy
    \/ Transport
    \/ RunSettleJob

Spec == Init /\ [][Next]_vars

\* The operations that read measurementUnit before it is assigned, next to an
\* operation that does not.
NextProtocol ==
    \/ \E tx \in OperationTxIds : CallOperation(tx)
    \/ \E tx \in OperationTxIds : SelectProfileAlternativeScale(tx)
    \/ \E tx \in OperationTxIds : ResetAlternativeScale(tx)
    \/ Transport
    \/ RunSettleJob

SpecProtocol == Init /\ [][NextProtocol]_vars

\* Characteristic monitors.
NextMonitor ==
    \/ \E tx \in MonitorTxIds : MonitorCharacteristicForDevice(tx)
    \/ \E s \in Ids : MonitorRemove(s)
    \/ \E tag \in CancelIds : ReadEvent(tag)
    \/ Destroy
    \/ Transport
    \/ RunSettleJob
    \/ RunThenJob

SpecMonitor == Init /\ [][NextMonitor]_vars

\* A monitor and a mediated operation that are given the same transaction id.
NextReuse ==
    \/ \E tx \in {"A"} : MonitorCharacteristicForDevice(tx)
    \/ \E tx \in {"A"} : CallOperation(tx)
    \/ \E s \in Ids : MonitorRemove(s)
    \/ Transport
    \/ RunSettleJob
    \/ RunThenJob

SpecReuse == Init /\ [][NextReuse]_vars

\* Every kind of subscription, and teardown.
NextSubscriptions ==
    \/ \E tx \in {"A"} : MonitorCharacteristicForDevice(tx)
    \/ \E d \in {"d1"} : OnDeviceDisconnected(d)
    \/ \E s \in Ids : SubscriptionRemove(s)
    \/ StartDeviceScan
    \/ StopDeviceScan
    \/ ScanEvent
    \/ Destroy
    \/ Transport
    \/ RunSettleJob
    \/ RunThenJob

SpecSubscriptions == Init /\ [][NextSubscriptions]_vars

\* The subscriptions of onDeviceDisconnected and onStateChange and their
\* removal.
NextListeners ==
    \/ \E d \in {"d1"} : OnDeviceDisconnected(d)
    \/ \E emit \in BOOLEAN : OnStateChange(emit)
    \/ \E s \in Ids : SubscriptionRemove(s)
    \/ Destroy
    \/ Transport
    \/ RunSettleJob
    \/ RunEmitJob

SpecListeners == Init /\ [][NextListeners]_vars

\* Disconnection events and their listeners.
NextDisconnection ==
    \/ \E d \in DeviceIds : OnDeviceDisconnected(d)
    \/ \E d \in DeviceIds : DisconnectionEvent(d)
    \/ \E s \in Ids : SubscriptionRemove(s)
    \/ Destroy

SpecDisconnection == Init /\ [][NextDisconnection]_vars

\* State-change listeners and the query of the current state.
NextStateChange ==
    \/ \E emit \in BOOLEAN : OnStateChange(emit)
    \/ StateChangeEvent
    \/ \E s \in Ids : SubscriptionRemove(s)
    \/ Destroy
    \/ Transport
    \/ RunSettleJob
    \/ RunEmitJob

SpecStateChange == Init /\ [][NextStateChange]_vars

\* The codec functions, each applied to every array of the bounded set.
NextCodec ==
    \/ CallCalculateChecksum
    \/ CallXOR
    \/ CallBase64ArrayBuffer

SpecCodec == InitCodec /\ [][NextCodec]_vars

\* The command frames of the device-protocol operations, for every argument
\* record of the bounded set.
NextFrames ==
    \/ SetUserProfileToAlternativeScale
    \/ SetUserProfileToScales
    \/ ActivateVibration
    \/ SetDeviceTime
    \/ SetTrackerDistanceUnit
    \/ GetDetailedDayActivity
    \/ GetSummaryDayActivity
    \/ FetchAdditionalGlucometerRecord
    \/ SetGlucometerTime
    \/ FetchBloodPressureMode
    \/ FetchHistoricBloodPressureMeasurement
    \/ TurnBloodPressureVoiceOff
    \/ StartBloodPressureTesting
    \/ SetBloodPressureTime

SpecFrames == InitFrames /\ [][NextFrames]_vars

\* The scheduling JavaScript guarantees: a queued promise job runs.  The
\* transport and the application owe nothing.
FairSpec == Spec /\ WF_vars(RunSettleJob)

\* ------------------------------------------------------------------ claims
Settled(k) == promises[k].status \in {"resolved", "rejected"}

\* What a caller can observe of the _callPromise call with key k.
Outcome(k) == <<promises[k].race, promises[k].status, promises[k].error,
                promises[k].settlements>>

\* C1: every operation that was pending when destroy() was called fails, and
\* the error its caller receives has the code BluetoothManagerDestroyed.
C1_PendingFailWithManagerDestroyed ==
    \A k \in pendingAtDestroy :
        /\ promises[k].status # "resolved"
        /\ promises[k].status = "rejected" =>
              promises[k].error.errorCode = "BluetoothManagerDestroyed"

\* C2: a mediated operation settles at most once, with a value or with an
\* error and never both, whatever the order of transport completion,
\* transport failure, cancelTransaction and destroy().
C2_SettlesAtMostOnce ==
    \A k \in Ids :
        /\ promises[k].settlements <= 1
        /\ promises[k].settlements = 1 <=> Settled(k)
        /\ promises[k].status = "resolved" => promises[k].error = NoError
        /\ promises[k].status = "rejected" => promises[k].error # NoError

C2_Witness ==
    \E k \in pendingAtDestroy :
        /\ promises[k].status = "rejected"
        /\ promises[k].native = "done"
        /\ promises[k].settlements = 1

\* C3: a started operation whose call the transport has completed, or that
\* was pending when destroy() was called, eventually settles.
C3_EveryOperationSettles ==
    \A k \in Ids :
        (promises[k].native = "done" \/ k \in pendingAtDestroy) ~> Settled(k)

C3_Witness ==
    \E k \in pendingAtDestroy : Settled(k) /\ promises[k].native # "done"

\* C4: an operation started after destroy() fails without the transport: once
\* the promise jobs have run, it is rejected.
C4_StartedAfterDestroyFails ==
    \A k \in Ids :
        (promises[k].afterDestroy /\ jobs = <<>>) => promises[k].status = "rejected"

\* C5: when destroy() returns, the active-subscription set is empty and no
\* event listener is attached.
C5_NoDanglingSubscription ==
    [][destroyCalls' = destroyCalls + 1 =>
          /\ activeSubscriptions' = {}
          /\ scanListeners' = {}
          /\ \A s \in Ids : ~subscriptions'[s].attached]_vars

UnknownTransaction(tx) ==
    /\ \A k \in Ids : promises[k].tx = tx => promises[k].status # "pending"
    /\ \A s \in activeSubscriptions : subscriptions[s].tx # tx

\* C7: cancelTransaction(id) for an unknown id, or one whose operation has
\* settled, settles nothing, invokes no listener and leaves the registry and
\* the active-subscription set unchanged.
C7_CancelUnknownIsNoOp ==
    [][\A tx \in CancelIds :
          (UnknownTransaction(tx) /\ CancelTransaction(tx)) =>
              /\ UNCHANGED <<activePromises, activeSubscriptions, subscriptions,
                             jobs, uniqueId>>
              /\ \A k \in Ids : Outcome(k)' = Outcome(k)]_vars

C7_Witness ==
    /\ cancelCalls > 0
    /\ \A k \in Ids : promises[k] = NoPromise
    /\ jobs = <<>>

\* C8: an event forwarded to the listener of a monitor carries the transaction
\* id of that monitor: an event tagged A never reaches the listener of B.
C8_TransactionIsolation ==
    \A d \in delivered : subscriptions[d[1]].tx = d[2]

C8_Witness ==
    \E a, b \in Ids :
        /\ subscriptions[a].kind = "monitor" /\ subscriptions[b].kind = "monitor"
        /\ subscriptions[a].tx # subscriptions[b].tx
        /\ subscriptions[a].attached /\ subscriptions[b].attached
        /\ subscriptions[a].events > 0
        /\ subscriptions[b].events = 0

\* C9: at most one BleModule.cancelTransaction is sent for one monitor
\* subscription, however often its remove() is called.
C9_OneCancelPerSubscription ==
    \A s \in Ids : subscriptions[s].cancels <= 1

\* C10: once remove() was called on a monitor subscription, no event is
\* forwarded to its listener any more.
C10_NoEventAfterRemove ==
    [][\A s \in Ids :
          subscriptions[s].removes > 0 =>
              subscriptions'[s].events = subscriptions[s].events]_vars

\* A promise job of the _callPromise call with key k is still queued.
JobPending(k) == \E i \in DOMAIN jobs : jobs[i].id = k

C12_EndedStreamIsSilent ==
    [][\A k \in Ids :
          (promises[k].owner = "monitor" /\ promises[k].status = "resolved") =>
              LET s == promises[k].sub IN
              /\ subscriptions[s].errors = 0
              /\ ~JobPending(k) =>
                    /\ s \notin activeSubscriptions
                    /\ ~subscriptions[s].attached
                    /\ subscriptions'[s].events = subscriptions[s].events
                    /\ subscriptions'[s].errors = 0]_vars

C12_Witness ==
    \E k \in Ids :
        /\ promises[k].owner = "monitor"
        /\ promises[k].status = "resolved"
        /\ ~JobPending(k)
        /\ subscriptions[promises[k].sub].events > 0

\* C13: remove() of a subscription of onStateChange or onDeviceDisconnected is
\* idempotent: the first call (or destroy()) deletes the entry and detaches the
\* listener, every later call changes nothing and detaches nothing again.
C13_RemoveIsIdempotent ==
    [][\A s \in Ids :
          subscriptions[s].kind \in {"disconnection", "statechange"} =>
              /\ subscriptions'[s].detaches <= 1
              /\ (\/ subscriptions'[s].removes > subscriptions[s].removes
                  \/ destroyCalls' > destroyCalls) =>
                    /\ s \notin activeSubscriptions'
                    /\ ~subscriptions'[s].attached
                    /\ subscriptions'[s].detaches = 1
              /\ s \notin activeSubscriptions =>
                    /\ s \notin activeSubscriptions'
                    /\ subscriptions'[s].attached = subscriptions[s].attached
                    /\ subscriptions'[s].detaches = subscriptions[s].detaches]_vars

C13_Witness ==
    /\ destroyCalls > 0
    /\ \E s, r \in Ids :
          /\ subscriptions[s].kind = "disconnection"
          /\ subscriptions[r].kind = "statechange"
          /\ subscriptions[s].removes = MaxRemoves
          /\ subscriptions[r].removes = MaxRemoves
          /\ subscriptions[s].detaches = 1
          /\ subscriptions[r].detaches = 1

\* C14: at most one scan listener is attached, scan events reach only the
\* listener of the most recent startDeviceScan, and none is attached after
\* stopDeviceScan or destroy.
C14_OneScanListener ==
    [][/\ Cardinality(scanListeners') <= 1
       /\ \A n \in 1..MaxScans : scanEvents'[n] # scanEvents[n] => n = scans
       /\ scanEventSubscription' = 0 => scanListeners' = {}
       /\ destroyCalls' > destroyCalls => scanListeners' = {}]_vars

C14_Witness ==
    /\ scans >= 2
    /\ scanEvents[1] > 0
    /\ scanEvents[2] > 0
    /\ scanListeners = {}

\* C15: the listener of onDeviceDisconnected(deviceIdentifier, listener) is
\* invoked only for disconnection events of the device deviceIdentifier.
C15_DisconnectionFilter ==
    \A d \in delivered :
        subscriptions[d[1]].kind = "disconnection" => d[2] = subscriptions[d[1]].tx

C15_Witness ==
    \E a, b \in Ids :
        /\ subscriptions[a].kind = "disconnection" /\ subscriptions[b].kind = "disconnection"
        /\ subscriptions[a].tx = "d1" /\ subscriptions[b].tx = "d2"
        /\ subscriptions[a].attached /\ subscriptions[b].attached
        /\ subscriptions[a].events > 0
        /\ subscriptions[b].events = 0

\* C16: with emitCurrentState the listener is invoked exactly once with the
\* queried state when the query completes and the subscription was not removed;
\* once the subscription is removed before that, it is never invoked with it.
C16_CurrentStateEmittedOnce ==
    [][\A k \in Ids :
          promises[k].owner = "statechange" =>
              LET s == promises[k].sub IN
              /\ subscriptions'[s].current <= 1
              /\ (/\ promises[k].status = "resolved"
                  /\ ~JobPending(k)
                  /\ s \in activeSubscriptions) => subscriptions[s].current = 1
              /\ (s \notin activeSubscriptions /\ subscriptions[s].current = 0) =>
                    subscriptions'[s].current = 0]_vars

C16_Witness ==
    \E k \in Ids :
        /\ promises[k].owner = "statechange"
        /\ subscriptions[promises[k].sub].current = 1
        /\ subscriptions[promises[k].sub].events > 0
        /\ promises[k].sub \in activeSubscriptions

\* The transport call behind key k has not completed.
InFlight(k) == promises[k].native \in {"inflight", "cancelling"}

\* C17: no two calls in flight carry the same transaction id.
C17_NoTransactionIdReuse ==
    \A j, k \in Ids :
        (j # k /\ InFlight(j) /\ InFlight(k)) => promises[j].tx # promises[k].tx

RECURSIVE SeqSum(_)
SeqSum(s) == IF s = <<>> THEN 0 ELSE Head(s) + SeqSum(Tail(s))

\* C18: calculateChecksum(b) is the sum of the bytes of b modulo 256.
C18_ChecksumIsSumMod256 ==
    output.op = "checksum" => output.number = SeqSum(Numbers(input)) % 256

C18_Witness ==
    /\ output.op = "checksum"
    /\ SeqSum(Numbers(input)) > 255
    /\ output.number # 0

RECURSIVE FoldXor(_)
\* The left fold of exclusive-or over the numeric elements, from 0.
FoldXor(array) ==
    IF array = <<>> THEN 0
    ELSE LET rest == FoldXor(SubSeq(array, 1, Len(array) - 1))
             last == array[Len(array)] IN
         IF last.nan THEN rest ELSE BitXor(rest, last.number)

\* C19: XOR(b) is the exclusive-or of all numeric elements of b, the first one
\* included, non-numeric entries skipped.
C19_XorFoldsEveryElement ==
    output.op = "xor" => (~output.nan /\ output.number = FoldXor(input))

\* The standard base64 alphabet and decoder.
StandardAlphabet ==
    <<"A", "B", "C", "D", "E", "F", "G", "H", "I", "J", "K", "L", "M", "N",
      "O", "P", "Q", "R", "S", "T", "U", "V", "W", "X", "Y", "Z", "a", "b",
      "c", "d", "e", "f", "g", "h", "i", "j", "k", "l", "m", "n", "o", "p",
      "q", "r", "s", "t", "u", "v", "w", "x", "y", "z", "0", "1", "2", "3",
      "4", "5", "6", "7", "8", "9", "+", "/">>
Sextet(c) == (CHOOSE i \in 1..64 : StandardAlphabet[i] = c) - 1

RECURSIVE atob(_)
atob(text) ==
    IF text = <<>> THEN <<>>
    ELSE LET v1 == Sextet(text[1])
             v2 == Sextet(text[2])
             rest == atob(SubSeq(text, 5, Len(text))) IN
         IF text[3] = "=" THEN <<v1 * 4 + v2 \div 16>> \o rest
         ELSE IF text[4] = "="
         THEN <<v1 * 4 + v2 \div 16, (v2 % 16) * 16 + Sextet(text[3]) \div 4>> \o rest
         ELSE <<v1 * 4 + v2 \div 16, (v2 % 16) * 16 + Sextet(text[3]) \div 4,
                (Sextet(text[3]) % 4) * 64 + Sextet(text[4])>> \o rest

\* C20: decoding base64ArrayBuffer(b) with the standard alphabet yields b, for
\* buffers of every length modulo 3.
C20_Base64RoundTrip ==
    output.op = "base64" =>
        /\ Len(output.text) % 4 = 0
        /\ atob(output.text) = Numbers(input)

C20_Witness ==
    /\ output.op = "base64"
    /\ Len(input) = 4
    /\ input[4].number = 255
    /\ output.text[7] = "=" /\ output.text[8] = "="

\* The number of "=" characters at the end of a text.
RECURSIVE Padding(_)
Padding(text) ==
    IF text # <<>> /\ text[Len(text)] = "="
    THEN 1 + Padding(SubSeq(text, 1, Len(text) - 1)) ELSE 0

\* C21: base64ArrayBuffer(b) has 4 * ceil(n / 3) symbols for n bytes and ends
\* with two "=" when n mod 3 = 1, one when n mod 3 = 2, none when n mod 3 = 0.
C21_Base64LengthAndPadding ==
    output.op = "base64" =>
        /\ Len(output.text) = 4 * ((Len(input) + 2) \div 3)
        /\ Padding(output.text) = (3 - (Len(input) % 3)) % 3

C21_Witness ==
    /\ output.op = "base64"
    /\ Len(input) = 2
    /\ Len(output.text) = 4
    /\ Padding(output.text) = 1

\* The value v clamped to [lo, hi].
Clamped(v, lo, hi) == IF v < lo THEN lo ELSE IF v > hi THEN hi ELSE v

\* C22: in both set-user-profile frames the height byte is the height clamped
\* to [100, 218] and the age byte, gender flag apart, is the age clamped to
\* [10, 98].
C22_ProfileFieldsClamped ==
    /\ output.op = "setUserProfileToAlternativeScale" =>
          /\ output.frame[9] = Clamped(input.height, 100, 218)
          /\ output.frame[10] = Clamped(input.age, 10, 98)
    /\ output.op = "setUserProfileToScales" =>
          /\ output.frame[7] = Clamped(input.height, 100, 218)
          /\ output.frame[6] =
                ToUint8(Clamped(input.age, 10, 98) + (IF input.male THEN 128 ELSE 0))

\* C23: byte 1 of the activateVibration frame is between 0 and 10 for every
\* duration.
C23_VibrationDurationClamped ==
    output.op = "activateVibration" => output.frame[2] \in 0..10

TrackerCommands ==
    {"activateVibration", "setDeviceTime", "setTrackerDistanceUnit",
     "getDetailedDayActivity", "getSummaryDayActivity"}

\* C24: every tracker frame has 16 bytes, and its byte 15 is the sum modulo
\* 256 of its bytes 0 to 14 as transmitted.
C24_TrackerFrameChecksum ==
    output.op \in TrackerCommands =>
        /\ Len(output.frame) = 16
        /\ \A i \in 1..16 : output.frame[i] \in 0..255
        /\ output.frame[16] = SeqSum(SubSeq(output.frame, 1, 15)) % 256
        /\ atob(output.text) = output.frame

C24_Witness ==
    /\ output.op = "getDetailedDayActivity"
    /\ input.age = 300
    /\ output.frame[2] = 44
    /\ output.frame[16] = 111

\* C25: the last byte of both glucometer frames is the sum modulo 256 of all
\* bytes before it.
C25_GlucometerChecksum ==
    output.op \in {"setGlucometerTime", "fetchAdditionalGlucometerRecord"} =>
        output.frame[Len(output.frame)] =
            SeqSum(SubSeq(output.frame, 1, Len(output.frame) - 1)) % 256

\* C26: no protocol operation fails with anything but a BleError, and none
\* fails before its transport write is issued.
C26_OperationsFailOnlyThroughTransport ==
    thrown = {}

\* C27: when destroy() returns, the registry _activePromises is empty.
C27_DestroyClearsRegistry ==
    [][destroyCalls' > destroyCalls => activePromises' = {}]_vars

\* C28: once a _callPromise call has settled, by a value, a transport failure
\* or a forced cancellation, its key is absent from _activePromises; every
\* key in the registry belongs to a call that has not settled.
C28_SettledEntryRemoved ==
    \A k \in Ids :
        /\ Settled(k) => k \notin activePromises
        /\ k \in activePromises => promises[k].status = "pending"
        /\ promises[k].status = "pending" => k \in activePromises

C28_Witness ==
    /\ activePromises = {}
    /\ \E a, b, c \in Ids :
          /\ promises[a].status = "resolved"
          /\ promises[b].status = "rejected" /\ promises[b].race = "transport"
          /\ promises[c].status = "rejected" /\ promises[c].race = "destroyed"

\* C29: when the transport completes a call that destroy() already cancelled,
\* the outcome stays the failure destroy() forced, nothing settles again, no
\* listener is invoked and neither the registry nor the active-subscription set
\* changes.
C29_DestroyedTakesPrecedence ==
    [][\A k \in Ids :
          (/\ promises[k].race = "destroyed"
           /\ promises[k].native # "done"
           /\ promises'[k].native = "done") =>
              /\ promises[k].status = "rejected"
              /\ Outcome(k)' = Outcome(k)
              /\ UNCHANGED <<activePromises, activeSubscriptions, subscriptions,
                             jobs, delivered>>]_vars

C29_Witness ==
    \E k \in Ids :
        /\ promises[k].race = "destroyed"
        /\ promises[k].owner = "monitor"
        /\ promises[k].native = "done"
        /\ promises[k].settlements = 1
        /\ subscriptions[promises[k].sub].errors = 1

\* C30: every key of _activePromises and of _activeSubscriptions is a fresh
\* identifier of _nextUniqueID, larger than every identifier issued before, so
\* registering an entry never overwrites one.
C30_KeysAreFresh ==
    [][/\ uniqueId' >= uniqueId
       /\ \A k \in Ids :
             /\ (promises[k].race = "none" /\ promises'[k].race # "none") =>
                   (k > uniqueId /\ k <= uniqueId' /\ subscriptions'[k].kind = "none")
             /\ (subscriptions[k].kind = "none" /\ subscriptions'[k].kind # "none") =>
                   (k > uniqueId /\ k <= uniqueId' /\ promises'[k].race = "none")
             /\ promises[k].race # "none" =>
                   /\ promises'[k].race # "none"
                   /\ promises'[k].tx = promises[k].tx
                   /\ k \in activePromises' => k \in activePromises
             /\ subscriptions[k].kind # "none" =>
                   /\ subscriptions'[k].kind = subscriptions[k].kind
                   /\ subscriptions'[k].tx = subscriptions[k].tx
                   /\ k \in activeSubscriptions' => k \in activeSubscriptions]_vars

C30_Witness ==
    /\ uniqueId = MaxId
    /\ activePromises = {}
    /\ \E j, k \in Ids :
          /\ j < k /\ Settled(j) /\ Settled(k)
          /\ promises[j].sub < j /\ promises[k].sub = j + 1

\* C31: the events a monitor listener is invoked with are a subsequence of the
\* transport's emissions for its transaction id, in emission order, each at
\* most once, and each handed over in the step that emits it (no buffering).
C31_EventsInEmissionOrder ==
    [][\A s \in Ids :
          subscriptions'[s].kind = "monitor" =>
              LET before == subscriptions[s].log
                  after == subscriptions'[s].log IN
              /\ \A i, j \in DOMAIN after : i < j => after[i] < after[j]
              /\ \A i \in DOMAIN after : after[i] \in 1..emitted'
              /\ Len(after) = subscriptions'[s].events
              /\ after # before =>
                    /\ emitted' = emitted + 1
                    /\ after = Append(before, emitted')
              /\ \A d \in delivered' : d[1] = s => d[2] = subscriptions'[s].tx]_vars

C31_Witness ==
    \E s \in Ids :
        /\ subscriptions[s].kind = "monitor"
        /\ subscriptions[s].log = <<1, 3>>
        /\ emitted = 3

\* C32: whenever a monitor listener is given a failure (start-call failure,
\* transport-side cancellation or manager destruction), its subscription is
\* still in the active set: the error is reported first, the removal follows.
C32_NotifiedBeforeRemoval ==
    [][\A s \in Ids :
          subscriptions'[s].errors > subscriptions[s].errors =>
              s \in activeSubscriptions]_vars

\* C33: in the blood-pressure time-set frame the year byte comes from the
\* wall clock and is the same for every date argument, while the month, day,
\* hour, minute and second bytes come from the date argument and are the same
\* for every wall-clock time.
C33_YearFromClockRestFromDate ==
    output.op = "setBloodPressureTime" =>
        /\ output.frame[6] = input.now.year
        /\ \A date \in Timestamps :
              setBloodPressureTimeFrame(input.now, date)[6] = output.frame[6]
        /\ SubSeq(output.frame, 7, 11) =
              <<input.time.month, input.time.day, input.time.hour,
                input.time.minute, input.time.second>>
        /\ \A now \in Timestamps :
              SubSeq(setBloodPressureTimeFrame(now, input.time), 7, 11) =
                  SubSeq(output.frame, 7, 11)

C33_Witness ==
    /\ output.op = "setBloodPressureTime"
    /\ input.now.year = 24
    /\ input.time.year = 99
    /\ output.frame[6] = 24
    /\ output.frame[7] = 12

FixedBloodPressureCommands ==
    {"fetchBloodPressureMode", "fetchHistoricBloodPressureMeasurement",
     "turnBloodPressureVoiceOff", "startBloodPressureTesting"}

\* What XOR returns for the bytes of a frame before its last one.
XorOfLeading(frame) == XOR(AsEntries(SubSeq(frame, 1, Len(frame) - 1)))

\* C34: the trailing byte of each of the four fixed blood-pressure frames is
\* the value XOR returns for the five bytes before it, the rule the computed
\* time-set frame follows as well.
C34_FixedFramesFollowXor ==
    /\ output.op \in FixedBloodPressureCommands =>
          /\ Len(output.frame) = 6
          /\ ~XorOfLeading(output.frame).nan
          /\ output.frame[6] = XorOfLeading(output.frame).number
    /\ output.op = "setBloodPressureTime" =>
          /\ Len(output.frame) = 12
          /\ output.frame[12] = XorOfLeading(output.frame).number

C34_Witness ==
    /\ output.op = "fetchBloodPressureMode"
    /\ output.frame[6] = 47
    /\ XorOfLeading(output.frame).number = 47
    /\ FoldXor(AsEntries(SubSeq(output.frame, 1, 5))) = 45

\* The monitor with subscription s has ended: its start call settled and the
\* subscription removed itself.
MonitorEnded(s) ==
    /\ subscriptions[s].kind = "monitor"
    /\ s \notin activeSubscriptions
    /\ \E k \in Ids : promises[k].sub = s /\ Settled(k)

\* C35: remove() on the handle of a monitor that has ended requests no
\* cancellation of an operation started since with the same transaction id.
C35_RemoveLeavesNewerOperation ==
    [][\A s, k \in Ids :
          (/\ MonitorEnded(s)
           /\ subscriptions'[s].removes > subscriptions[s].removes
           /\ k > s
           /\ promises[k].sub # s
           /\ promises[k].tx = subscriptions[s].tx
           /\ InFlight(k))
          => promises'[k].native = promises[k].native]_vars

\* C36: with emitCurrentState the queried state is never handed to the
\* listener after a state-change event emitted later than the query; every
\* event the listener has received was emitted after onStateChange, which makes
\* the query, returned.
C36_CurrentStateBeforeLaterEvents ==
    [][\A s \in Ids :
          subscriptions'[s].current > subscriptions[s].current =>
              subscriptions[s].events = 0]_vars

\* C37: an id is a key of _activeSubscriptions exactly when the listener of
\* its subscription is attached to the event emitter, for state-change,
\* disconnection, monitor and restore-state subscriptions alike.
C37_EntryIffAttached ==
    \A s \in Ids :
        subscriptions[s].kind # "none" =>
            (s \in activeSubscriptions <=> subscriptions[s].attached)

\* C38: a second destroy() has no further effect: it invokes no cancellation
\* hook, removes no underlying listener a second time and delivers no
\* additional error to a caller or a listener.
C38_SecondDestroyHasNoEffect ==
    [][(destroyCalls >= 1 /\ destroyCalls' > destroyCalls) =>
          /\ \A k \in Ids :
                /\ promises'[k].hooks = promises[k].hooks
                /\ Outcome(k)' = Outcome(k)
          /\ \A s \in Ids :
                /\ subscriptions'[s].detaches = subscriptions[s].detaches
                /\ subscriptions'[s].errors = subscriptions[s].errors
          /\ jobs' = jobs]_vars

====
